---- MODULE Spec2Model ----
(***************************************************************************)
(* hive_schemas_csv.py: connect to HiveServer2 / Impala and dump every     *)
(* database, table, column and type as CSV on stdout.                      *)
(*                                                                         *)
(* Python strings are sequences of one-character strings, so that the csv  *)
(* encoder and int() can look at their characters.  The HiveServer2 /      *)
(* Impala server is the environment: it answers each fetch with a row of   *)
(* its own choosing or with the end of the result set, and any call to it  *)
(* may raise.                                                              *)
(***************************************************************************)
EXTENDS Integers, Sequences, FiniteSets, TLC

VARIABLES argv0,      \* sys.argv[0]
          flags,      \* the command line options given (None: not given)
          env,        \* os.environ restricted to host_envs and port_envs
          args,       \* the argparse namespace
          pc,         \* the statement of main() to run next
          status,     \* the exit status of the process, -1 while running
          conn,       \* the connect() calls made, each with its parameters
          csv_writer, \* the dialect of the csv.DictWriter
          stdout,     \* the lines written to sys.stdout
          written,    \* the row dictionaries of those lines
          cursors,    \* the open db_cursor, table_cursor, column_cursor (0: none)
          locals,     \* database, table, column, column_type of main()
          log,        \* every statement executed, with its cursor
          server      \* the server: session state and the catalog it has revealed

vars == <<argv0, flags, env, args, pc, status, conn, csv_writer, stdout,
          written, cursors, locals, log, server>>

-----------------------------------------------------------------------------
(* Bounds of the model *)

\* rows (database, table and column rows together) the server returns in a run
MaxRows == 6

-----------------------------------------------------------------------------
(* Python values *)

None == <<"None">>

S_hive == <<"h","i","v","e">>
S_impala == <<"i","m","p","a","l","a">>
S_10000 == <<"1","0","0","0","0">>
S_21050 == <<"2","1","0","5","0">>

\* socket.getfqdn()
Fqdn == <<"f","q","d","n">>

host_envs == <<"HIVESERVER2_HOST", "HIVE_HOST", "IMPALA_HOST", "HOST">>

port_envs == <<"HIVESERVER2_PORT", "HIVE_PORT", "IMPALA_PORT", "PORT">>

Range(s) == {s[i] : i \in 1..Len(s)}

\* os.getenv(key): None when the variable is unset
getenv(e, key) == IF key \in DOMAIN e THEN e[key] ELSE None

\* getenvs with "if value is not None": an empty value is taken as set
RECURSIVE getenvs_empty_wins(_, _, _)
getenvs_empty_wins(e, keys, default) ==
    IF keys = <<>> THEN default
    ELSE LET value == getenv(e, Head(keys))
         IN IF value # None THEN value
            ELSE getenvs_empty_wins(e, Tail(keys), default)

\* getenvs(keys, default): the first value that is truthy (set and non-empty)
RECURSIVE getenvs(_, _, _)
getenvs(e, keys, default) ==
    IF keys = <<>> THEN default
    ELSE LET value == getenv(e, Head(keys))
         IN IF value # None /\ value # <<>> THEN value
            ELSE getenvs(e, Tail(keys), default)

Digits == <<"0","1","2","3","4","5","6","7","8","9">>

DigitVal(c) == (CHOOSE i \in 1..Len(Digits) : Digits[i] = c) - 1

IsInt(s) == s # None /\ s # <<>> /\ \A i \in 1..Len(s) : s[i] \in Range(Digits)

\* int(s) of a string of decimal digits
RECURSIVE int(_)
int(s) ==
    IF s = <<>> THEN 0
    ELSE 10 * int(SubSeq(s, 1, Len(s) - 1)) + DigitVal(s[Len(s)])

\* argparse: an option given on the command line wins over default=; a default
\* that is a string goes through type= like a command line value
OptionString(given, default) == IF given # None THEN given ELSE default

\* the value of --port before type=int: 10000 is an int default already
PortString(f, e) == OptionString(f.port, getenvs(e, port_envs, S_10000))

\* parser.parse_args(): the namespace (argparse exits with a usage error
\* instead when the port string is no integer)
parse(f, e) ==
         [host |-> OptionString(f.host, getenvs(e, host_envs, Fqdn)),
          port |-> int(PortString(f, e)),
          kerberos |-> f.kerberos,
          krb5_service_name |-> OptionString(f.krb5_service_name, S_hive),
          ssl |-> f.ssl,
          delimiter |-> OptionString(f.delimiter, <<",">>),
          quotechar |-> OptionString(f.quotechar, <<"\"">>),
          escapechar |-> f.escapechar]

\* sub in s
Contains(s, sub) ==
    \E i \in 0..(Len(s) - Len(sub)) : SubSeq(s, i + 1, i + Len(sub)) = sub

\* the invocation-name sensing of parse_args
sense(name, a) ==
    IF Contains(name, S_impala)
    THEN [a EXCEPT !.krb5_service_name =
                       IF @ = S_hive THEN S_impala ELSE @,
                   !.port = IF @ = 10000 THEN 21050 ELSE @]
    ELSE a

\* the keyword arguments connect_db passes to connect()
connect_kwargs(a, database) ==
    [host |-> a.host,
     port |-> a.port,
     auth_mechanism |-> IF a.kerberos THEN "GSSAPI" ELSE "None",
     use_ssl |-> a.ssl,
     database |-> database,
     kerberos_service_name |-> a.krb5_service_name]

-----------------------------------------------------------------------------
(* The csv module, as main() uses it: dialect excel, doublequote on *)

NoChar == ""
CsvError == <<"csv.Error">>

fieldnames == << <<"d","a","t","a","b","a","s","e">>, <<"t","a","b","l","e">>,
                 <<"c","o","l","u","m","n">>, <<"t","y","p","e">> >>

lineterminator == <<"\r", "\n">>

\* the dialect csv.DictWriter is constructed with
dialect(a) ==
    [delimiter |-> a.delimiter[1],
     quotechar |-> IF a.quotechar = <<>> THEN NoChar ELSE a.quotechar[1],
     escapechar |-> IF a.escapechar = None THEN NoChar ELSE a.escapechar[1],
     quoting |-> IF a.quotechar = <<>> THEN "QUOTE_NONE" ELSE "QUOTE_ALL"]

\* an encoder that writes the characters as they are and never raises
join_append_data_raw(w, field) == field

\* the characters of one field: CsvError when a character needs an escape
\* and no escapechar is set
RECURSIVE join_append_data(_, _)
join_append_data(w, field) ==
    IF field = <<>> THEN <<>>
    ELSE LET c == Head(field)
             special == \/ c = w.delimiter
                        \/ c = w.escapechar
                        \/ c = w.quotechar
                        \/ c \in Range(lineterminator)
             want_escape == special /\ w.quoting = "QUOTE_NONE"
             doubled == special /\ w.quoting # "QUOTE_NONE" /\ c = w.quotechar
             rest == join_append_data(w, Tail(field))
         IN IF want_escape /\ w.escapechar = NoChar THEN CsvError
            ELSE IF rest = CsvError THEN CsvError
            ELSE (IF want_escape THEN <<w.escapechar>>
                  ELSE IF doubled THEN <<w.quotechar>>
                  ELSE <<>>) \o <<c>> \o rest

join_append(w, field) ==
    LET data == join_append_data(w, field)
    IN IF data = CsvError THEN CsvError
       ELSE IF w.quoting = "QUOTE_ALL"
            THEN <<w.quotechar>> \o data \o <<w.quotechar>>
            ELSE data

RECURSIVE join_fields(_, _)
join_fields(w, fields) ==
    LET first == join_append(w, Head(fields))
        rest == join_fields(w, Tail(fields))
    IN IF first = CsvError THEN CsvError
       ELSE IF Len(fields) = 1 THEN first
       ELSE IF rest = CsvError THEN CsvError
       ELSE first \o <<w.delimiter>> \o rest

\* DictWriter._dict_to_list: the values in the order of fieldnames
dict_to_list(rowdict) ==
    <<rowdict.database, rowdict.table, rowdict.column, rowdict.type>>

\* the line writerow hands to sys.stdout.write, or CsvError (nothing is written)
writerow(w, rowdict) ==
    LET line == join_fields(w, dict_to_list(rowdict))
    IN IF line = CsvError THEN CsvError ELSE line \o lineterminator

\* writeheader: dict(zip(fieldnames, fieldnames))
header == [database |-> fieldnames[1], table |-> fieldnames[2],
           column |-> fieldnames[3], type |-> fieldnames[4]]

-----------------------------------------------------------------------------
(* The server.  SHOW DATABASES returns distinct database names and SHOW     *)
(* TABLES distinct table names; DESCRIBE may repeat a row (Hive lists the   *)
(* partition columns of a table twice).  The database selected by USE is    *)
(* state of the cursor's session or of the whole connection: which of the   *)
(* two the server does is fixed when the run starts.                        *)

DefaultDb == <<"d","e","f","a","u","l","t">>

DbNames == { <<"d","b","1">>, <<"d",";","2">> }

TableNames == { <<"t","1">>, <<"t",",","2">> }

\* (col_name, data_type, comment)
ColumnRows == { << <<"c","1">>, <<"i","n","t">>, <<>> >>,
                << <<"c","2">>, <<"d","e","c","(","5",",","2",")">>, <<"k">> >> }

NoResult == [kind |-> "none", db |-> <<>>, table |-> <<>>]

\* the database a statement on cursor c runs in
Context(srv, c) == IF srv.scope = "connection" THEN srv.curdb ELSE srv.sess[c]

\* conn.cursor(): a new cursor (a new session), numbered in order of opening
NewCursor(srv) ==
    [srv EXCEPT !.sess = Append(@, DefaultDb), !.result = Append(@, NoResult),
                !.open = @ \cup {Len(srv.sess) + 1}]

\* cursor.close(), which the with block calls when it ends
CloseCursor(srv, c) == [srv EXCEPT !.open = @ \ {c}]

ServerUse(srv, c, d) ==
    [srv EXCEPT !.curdb = d, !.sess[c] = d, !.result[c] = NoResult]

ServerShowDatabases(srv, c) ==
    [srv EXCEPT !.result[c] = [kind |-> "databases", db |-> <<>>, table |-> <<>>]]

ServerShowTables(srv, c) ==
    [srv EXCEPT !.result[c] =
        [kind |-> "tables", db |-> Context(srv, c), table |-> <<>>]]

ServerDescribe(srv, c, t) ==
    [srv EXCEPT !.result[c] =
        [kind |-> "columns", db |-> Context(srv, c), table |-> t]]

\* the rows cursor c may return next
NextRows(srv, c) ==
    LET r == srv.result[c]
    IN IF srv.nrows >= MaxRows THEN {}
       ELSE IF r.kind = "databases" THEN {<<d>> : d \in DbNames \ Range(srv.dbs)}
       ELSE IF r.kind = "tables"
            THEN {<<t>> : t \in TableNames \ Range(srv.tablesOf[r.db])}
       ELSE IF r.kind = "columns" THEN ColumnRows
       ELSE {}

\* the server after cursor c has returned row
Returned(srv, c, row) ==
    LET r == srv.result[c]
    IN IF r.kind = "databases"
       THEN [srv EXCEPT !.nrows = @ + 1, !.dbs = Append(@, row[1])]
       ELSE IF r.kind = "tables"
       THEN [srv EXCEPT !.nrows = @ + 1, !.tablesOf[r.db] = Append(@, row[1])]
       ELSE [srv EXCEPT !.nrows = @ + 1,
                        !.colsOf[<<r.db, r.table>>] = Append(@, row)]

-----------------------------------------------------------------------------
(* main() *)

Stmt(c, s, a, ok) == [cur |-> c, stmt |-> s, arg |-> a, ok |-> ok]

NoCursors == [db |-> 0, table |-> 0, column |-> 0]

NoLocals == [database |-> None, table |-> None, column |-> None,
             column_type |-> None]

\* column_row[0] taken for the type and column_row[1] for the column
SchemaRow_swapped(l) == [database |-> l.database, table |-> l.table,
                         column |-> l.column_type, type |-> l.column]

\* lines 180-183: the dictionary handed to csv_writer.writerow
SchemaRow(l) == [database |-> l.database, table |-> l.table,
               column |-> l.column, type |-> l.column_type]

\* an exception leaves main(): the with blocks it passes close their cursors
Raise == pc' = "raise"

\* line 140, lines 87-108: args = parser.parse_args()
ParseArgs ==
    /\ pc = "parse_args"
    /\ IF IsInt(PortString(flags, env))
       THEN /\ args' = parse(flags, env)
            /\ pc' = "sense"
            /\ UNCHANGED status
       ELSE /\ pc' = "exit"
            /\ status' = 2
            /\ UNCHANGED args
    /\ UNCHANGED <<argv0, flags, env, conn, csv_writer, stdout, written,
                   cursors, locals, log, server>>

\* lines 110-120
Sense ==
    /\ pc = "sense"
    /\ args' = sense(argv0, args)
    /\ pc' = "connect"
    /\ UNCHANGED <<argv0, flags, env, status, conn, csv_writer, stdout,
                   written, cursors, locals, log, server>>

\* connect_db in a retry loop
ConnectDb_retry ==
    /\ pc = "connect"
    /\ \E ok \in BOOLEAN :
         /\ conn' = Append(conn, [kwargs |-> connect_kwargs(args, None),
                                  ok |-> ok])
         /\ IF ok THEN pc' = "writer" ELSE UNCHANGED pc
    /\ UNCHANGED <<argv0, flags, env, args, status, csv_writer, stdout,
                   written, cursors, locals, log, server>>

\* line 142: conn = connect_db(args, None)
ConnectDb ==
    /\ pc = "connect"
    /\ \E ok \in BOOLEAN :
         /\ conn' = Append(conn, [kwargs |-> connect_kwargs(args, None),
                                  ok |-> ok])
         /\ IF ok THEN pc' = "writer" ELSE Raise
    /\ UNCHANGED <<argv0, flags, env, args, status, csv_writer, stdout,
                   written, cursors, locals, log, server>>

\* lines 144-153
MakeWriter ==
    /\ pc = "writer"
    /\ csv_writer' = dialect(args)
    /\ pc' = "writeheader"
    /\ UNCHANGED <<argv0, flags, env, args, status, conn, stdout, written,
                   cursors, locals, log, server>>

\* csv_writer.writerow(rowdict), then the statement at next
Write(rowdict, next) ==
    LET line == writerow(csv_writer, rowdict)
    IN \/ /\ line # CsvError
          /\ stdout' = Append(stdout, line)
          /\ written' = Append(written, rowdict)
          /\ pc' = next
       \/ /\ line = CsvError
          /\ Raise
          /\ UNCHANGED <<stdout, written>>
       \/ \* sys.stdout.write raises (a closed pipe)
          /\ Raise
          /\ UNCHANGED <<stdout, written>>

\* line 154
WriteHeader ==
    /\ pc = "writeheader"
    /\ Write(header, "db_cursor")
    /\ UNCHANGED <<argv0, flags, env, args, status, conn, csv_writer,
                   cursors, locals, log, server>>

\* with conn.cursor() as <kind>_cursor
OpenCursor(kind, next) ==
    \/ /\ server' = NewCursor(server)
       /\ cursors' = [cursors EXCEPT ![kind] = Len(server.sess) + 1]
       /\ pc' = next
    \/ /\ Raise
       /\ UNCHANGED <<server, cursors>>

\* execute inside try/except: the failure is skipped and the run goes on
Execute_swallow(c, stmt, arg, srv, next) ==
    \/ /\ log' = Append(log, Stmt(c, stmt, arg, TRUE))
       /\ server' = srv
       /\ pc' = next
    \/ /\ log' = Append(log, Stmt(c, stmt, arg, FALSE))
       /\ pc' = next
       /\ UNCHANGED server

\* cursor.execute(...)
Execute(c, stmt, arg, srv, next) ==
    \/ /\ log' = Append(log, Stmt(c, stmt, arg, TRUE))
       /\ server' = srv
       /\ pc' = next
    \/ /\ log' = Append(log, Stmt(c, stmt, arg, FALSE))
       /\ Raise
       /\ UNCHANGED server

\* line 156
OpenDbCursor ==
    /\ pc = "db_cursor"
    /\ OpenCursor("db", "show_databases")
    /\ UNCHANGED <<argv0, flags, env, args, status, conn, csv_writer, stdout,
                   written, locals, log>>

\* line 157
ShowDatabases ==
    /\ pc = "show_databases"
    /\ Execute(cursors.db, "show databases", <<>>,
               ServerShowDatabases(server, cursors.db), "for_db")
    /\ UNCHANGED <<argv0, flags, env, args, status, conn, csv_writer, stdout,
                   written, cursors, locals>>

\* lines 158-159: for db_row in db_cursor; when the rows end, the with block
\* of db_cursor ends and main() returns
ForDb ==
    /\ pc = "for_db"
    /\ \/ \E row \in NextRows(server, cursors.db) :
            /\ server' = Returned(server, cursors.db, row)
            /\ locals' = [locals EXCEPT !.database = row[1]]
            /\ pc' = "table_cursor"
            /\ UNCHANGED <<cursors, status>>
       \/ /\ cursors' = [cursors EXCEPT !.db = 0]
          /\ server' = CloseCursor(server, cursors.db)
          /\ pc' = "exit"
          /\ status' = 0
          /\ UNCHANGED locals
       \/ /\ Raise
          /\ UNCHANGED <<server, locals, cursors, status>>
    /\ UNCHANGED <<argv0, flags, env, args, conn, csv_writer, stdout,
                   written, log>>

\* line 163
OpenTableCursor ==
    /\ pc = "table_cursor"
    /\ OpenCursor("table", "use_database")
    /\ UNCHANGED <<argv0, flags, env, args, status, conn, csv_writer, stdout,
                   written, locals, log>>

\* line 166
UseDatabase ==
    /\ pc = "use_database"
    /\ Execute(cursors.table, "use", locals.database,
               ServerUse(server, cursors.table, locals.database), "show_tables")
    /\ UNCHANGED <<argv0, flags, env, args, status, conn, csv_writer, stdout,
                   written, cursors, locals>>

\* line 167
ShowTables ==
    /\ pc = "show_tables"
    /\ Execute(cursors.table, "show tables", <<>>,
               ServerShowTables(server, cursors.table), "for_table")
    /\ UNCHANGED <<argv0, flags, env, args, status, conn, csv_writer, stdout,
                   written, cursors, locals>>

\* lines 168-169: for table_row in table_cursor
ForTable ==
    /\ pc = "for_table"
    /\ \/ \E row \in NextRows(server, cursors.table) :
            /\ server' = Returned(server, cursors.table, row)
            /\ locals' = [locals EXCEPT !.table = row[1]]
            /\ pc' = "column_cursor"
            /\ UNCHANGED cursors
       \/ /\ cursors' = [cursors EXCEPT !.table = 0]
          /\ server' = CloseCursor(server, cursors.table)
          /\ pc' = "for_db"
          /\ UNCHANGED locals
       \/ /\ Raise
          /\ UNCHANGED <<server, locals, cursors>>
    /\ UNCHANGED <<argv0, flags, env, args, status, conn, csv_writer, stdout,
                   written, log>>

\* line 171
OpenColumnCursor ==
    /\ pc = "column_cursor"
    /\ OpenCursor("column", "use_database_again")
    /\ UNCHANGED <<argv0, flags, env, args, status, conn, csv_writer, stdout,
                   written, locals, log>>

\* no USE on the column cursor
UseDatabaseAgain_skipped ==
    /\ pc = "use_database_again"
    /\ pc' = "describe"
    /\ UNCHANGED <<argv0, flags, env, args, status, conn, csv_writer, stdout,
                   written, cursors, locals, log, server>>

\* line 175
UseDatabaseAgain ==
    /\ pc = "use_database_again"
    /\ Execute(cursors.column, "use", locals.database,
               ServerUse(server, cursors.column, locals.database), "describe")
    /\ UNCHANGED <<argv0, flags, env, args, status, conn, csv_writer, stdout,
                   written, cursors, locals>>

\* DESCRIBE executed a second time
Describe_twice ==
    /\ pc = "describe"
    /\ log' = log \o <<Stmt(cursors.column, "describe", locals.table, TRUE),
                       Stmt(cursors.column, "describe", locals.table, TRUE)>>
    /\ server' = ServerDescribe(server, cursors.column, locals.table)
    /\ pc' = "for_column"
    /\ UNCHANGED <<argv0, flags, env, args, status, conn, csv_writer, stdout,
                   written, cursors, locals>>

\* line 176
Describe ==
    /\ pc = "describe"
    /\ Execute(cursors.column, "describe", locals.table,
               ServerDescribe(server, cursors.column, locals.table),
               "for_column")
    /\ UNCHANGED <<argv0, flags, env, args, status, conn, csv_writer, stdout,
                   written, cursors, locals>>

\* lines 177-179: for column_row in column_cursor
ForColumn ==
    /\ pc = "for_column"
    /\ \/ \E row \in NextRows(server, cursors.column) :
            /\ server' = Returned(server, cursors.column, row)
            /\ locals' = [locals EXCEPT !.column = row[1],
                                        !.column_type = row[2]]
            /\ pc' = "writerow"
            /\ UNCHANGED cursors
       \/ /\ cursors' = [cursors EXCEPT !.column = 0]
          /\ server' = CloseCursor(server, cursors.column)
          /\ pc' = "for_table"
          /\ UNCHANGED locals
       \/ /\ Raise
          /\ UNCHANGED <<server, locals, cursors>>
    /\ UNCHANGED <<argv0, flags, env, args, status, conn, csv_writer, stdout,
                   written, log>>

\* the row is kept for later instead of being written
WriteRow_deferred ==
    /\ pc = "writerow"
    /\ pc' = "for_column"
    /\ UNCHANGED <<argv0, flags, env, args, status, conn, csv_writer, stdout,
                   written, cursors, locals, log, server>>

\* lines 180-183
WriteRow ==
    /\ pc = "writerow"
    /\ Write(SchemaRow(locals), "for_column")
    /\ UNCHANGED <<argv0, flags, env, args, status, conn, csv_writer,
                   cursors, locals, log, server>>

\* cursors opened without with blocks: the exception closes none
Unwind_leak ==
    /\ pc = "raise"
    /\ pc' = "exit"
    /\ status' = 1
    /\ UNCHANGED <<argv0, flags, env, args, conn, csv_writer, stdout,
                   written, cursors, locals, log, server>>

\* the exception passes the innermost with block still open, which closes its
\* cursor; past the last one it ends the process with a traceback
Unwind ==
    /\ pc = "raise"
    /\ IF cursors.column # 0 THEN
            /\ cursors' = [cursors EXCEPT !.column = 0]
            /\ server' = CloseCursor(server, cursors.column)
            /\ UNCHANGED <<pc, status>>
       ELSE IF cursors.table # 0 THEN
            /\ cursors' = [cursors EXCEPT !.table = 0]
            /\ server' = CloseCursor(server, cursors.table)
            /\ UNCHANGED <<pc, status>>
       ELSE IF cursors.db # 0 THEN
            /\ cursors' = [cursors EXCEPT !.db = 0]
            /\ server' = CloseCursor(server, cursors.db)
            /\ UNCHANGED <<pc, status>>
       ELSE /\ pc' = "exit"
            /\ status' = 1
            /\ UNCHANGED <<cursors, server>>
    /\ UNCHANGED <<argv0, flags, env, args, conn, csv_writer, stdout,
                   written, locals, log>>

-----------------------------------------------------------------------------
(* Specifications *)

NoFlags == [host |-> None, port |-> None, kerberos |-> FALSE,
            krb5_service_name |-> None, ssl |-> FALSE, delimiter |-> None,
            quotechar |-> None, escapechar |-> None]

NoArgs == parse(NoFlags, <<>>)

Server0(scope) ==
    [scope |-> scope, curdb |-> DefaultDb, sess |-> <<>>, result |-> <<>>,
     open |-> {}, nrows |-> 0, dbs |-> <<>>,
     tablesOf |-> [d \in DbNames \cup {DefaultDb} |-> <<>>],
     colsOf |-> [k \in (DbNames \cup {DefaultDb}) \X TableNames |-> <<>>]]

Start ==
    /\ args = NoArgs
    /\ pc = "parse_args"
    /\ status = -1
    /\ conn = <<>>
    /\ csv_writer = dialect(NoArgs)
    /\ stdout = <<>>
    /\ written = <<>>
    /\ cursors = NoCursors
    /\ locals = NoLocals
    /\ log = <<>>

Script == <<"h","i","v","e",".","p","y">>
ImpalaScripts == { <<"i","m","p","a","l","a",".","p","y">>,
                   <<".","/","i","m","p","a","l","a">> }

\* the dump: every csv dialect the options select, any server
Init ==
    /\ argv0 = Script
    /\ env = <<>>
    /\ \E d \in {None, <<";">>}, q \in {None, <<>>}, e \in {None, <<"\\">>} :
         flags = [NoFlags EXCEPT !.delimiter = d, !.quotechar = q,
                                 !.escapechar = e]
    /\ \E scope \in {"cursor", "connection"} : server = Server0(scope)
    /\ Start

HostEnvValue ==
    [HIVESERVER2_HOST |-> {<<>>, <<"h","1">>},
     HIVE_HOST |-> {<<>>, <<"h","2">>},
     IMPALA_HOST |-> {<<>>, <<"h","3">>},
     HOST |-> {<<>>, <<"h","4">>}]

PortEnvValue ==
    [HIVESERVER2_PORT |-> {<<>>, S_10000},
     HIVE_PORT |-> {<<>>, <<"0","1","0","0","0","0">>},
     IMPALA_PORT |-> {<<>>, S_21050},
     PORT |-> {<<>>, <<"8","0">>, <<"x">>}]

\* every environment that sets some of keys, each to one of its values
Environments(keys, values) ==
    UNION { {e \in [S -> UNION {values[k] : k \in S}] :
                \A k \in S : e[k] \in values[k]} : S \in SUBSET Range(keys) }

\* the configuration: either the host options and variables are given and the
\* port ones are not, or the other way round (the two resolutions share no
\* code path but getenvs)
InitArgs ==
    /\ \/ /\ argv0 = Script
          /\ env \in Environments(host_envs, HostEnvValue)
          /\ \E h \in {None, <<>>, <<"h","0">>}, k \in BOOLEAN, s \in BOOLEAN :
               flags = [NoFlags EXCEPT !.host = h, !.kerberos = k, !.ssl = s]
       \/ /\ argv0 \in {Script} \cup ImpalaScripts
          /\ env \in Environments(port_envs, PortEnvValue)
          /\ \E p \in {None, S_10000, <<"9">>, <<"1","e","4">>},
                n \in {None, S_hive, <<"s","v","c">>} :
               flags = [NoFlags EXCEPT !.port = p, !.krb5_service_name = n]
    /\ server = Server0("cursor")
    /\ Start

NextArgs ==
    \/ ParseArgs
    \/ Sense
    \/ ConnectDb
    \/ Unwind

SpecArgs == InitArgs /\ [][NextArgs]_vars

Next ==
    \/ ParseArgs
    \/ Sense
    \/ ConnectDb
    \/ MakeWriter
    \/ WriteHeader
    \/ OpenDbCursor
    \/ ShowDatabases
    \/ ForDb
    \/ OpenTableCursor
    \/ UseDatabase
    \/ ShowTables
    \/ ForTable
    \/ OpenColumnCursor
    \/ UseDatabaseAgain
    \/ Describe
    \/ ForColumn
    \/ WriteRow
    \/ Unwind

Spec == Init /\ [][Next]_vars

-----------------------------------------------------------------------------
(* Configuration resolution (SpecArgs) *)

IsSet(k) == k \in DOMAIN env /\ env[k] # <<>>

HostGiven ==
    IF flags.host # None THEN flags.host
    ELSE IF IsSet("HIVESERVER2_HOST") THEN env["HIVESERVER2_HOST"]
    ELSE IF IsSet("HIVE_HOST") THEN env["HIVE_HOST"]
    ELSE IF IsSet("IMPALA_HOST") THEN env["IMPALA_HOST"]
    ELSE IF IsSet("HOST") THEN env["HOST"]
    ELSE None

PortGiven ==
    IF flags.port # None THEN flags.port
    ELSE IF IsSet("HIVESERVER2_PORT") THEN env["HIVESERVER2_PORT"]
    ELSE IF IsSet("HIVE_PORT") THEN env["HIVE_PORT"]
    ELSE IF IsSet("IMPALA_PORT") THEN env["IMPALA_PORT"]
    ELSE IF IsSet("PORT") THEN env["PORT"]
    ELSE None

\* the number each port string of InitArgs denotes
Number(str) ==
    CASE str = S_10000 -> 10000
      [] str = <<"0","1","0","0","0","0">> -> 10000
      [] str = S_21050 -> 21050
      [] str = <<"8","0">> -> 80
      [] str = <<"9">> -> 9

\* C3: under a name containing "impala" the service principal becomes
\* "impala" and the port 21050 only when they were left at their defaults: a
\* port given by --port or by a port variable, and a principal given by
\* --krb5-service-name, is what the connection is made with, whatever its
\* value (10000 and "hive" included).
C3_GivenValueNeverOverridden ==
    (pc = "connect" /\ Contains(argv0, S_impala)) =>
        /\ args.port = IF PortGiven = None THEN 21050 ELSE Number(PortGiven)
        /\ args.krb5_service_name =
               IF flags.krb5_service_name = None THEN S_impala
               ELSE flags.krb5_service_name

\* C4: when parse_args() has parsed the options, the host is the --host
\* option if given, otherwise the first set and non-empty variable of
\* HIVESERVER2_HOST, HIVE_HOST, IMPALA_HOST, HOST, otherwise the fqdn; the port
\* is the --port option if given, otherwise the first set and non-empty
\* variable of HIVESERVER2_PORT, HIVE_PORT, IMPALA_PORT, PORT, otherwise 10000.
C4_ResolutionOrder ==
    pc = "sense" =>
        /\ args.host = IF HostGiven = None THEN Fqdn ELSE HostGiven
        /\ args.port = IF PortGiven = None THEN 10000 ELSE Number(PortGiven)

\* an empty HIVESERVER2_PORT is skipped and HIVE_PORT wins over PORT
C4_Witness ==
    /\ pc = "sense"
    /\ flags.port = None
    /\ "HIVESERVER2_PORT" \in DOMAIN env /\ env["HIVESERVER2_PORT"] = <<>>
    /\ IsSet("HIVE_PORT") /\ IsSet("PORT")
    /\ env["PORT"] = <<"8","0">>
    /\ args.port = 10000

-----------------------------------------------------------------------------
(* The dump (Spec) *)

IsPrefix(a, b) == Len(a) <= Len(b) /\ SubSeq(b, 1, Len(a)) = a

\* the rows the catalog the server has revealed holds, in the server's order
RowsOfTable(d, t) ==
    [i \in 1..Len(server.colsOf[<<d, t>>]) |->
        [database |-> d, table |-> t,
         column |-> server.colsOf[<<d, t>>][i][1],
         type |-> server.colsOf[<<d, t>>][i][2]]]

RECURSIVE RowsOfTables(_, _)
RowsOfTables(d, ts) ==
    IF ts = <<>> THEN <<>>
    ELSE RowsOfTable(d, Head(ts)) \o RowsOfTables(d, Tail(ts))

RECURSIVE RowsOfDatabases(_)
RowsOfDatabases(ds) ==
    IF ds = <<>> THEN <<>>
    ELSE RowsOfTables(Head(ds), server.tablesOf[Head(ds)])
             \o RowsOfDatabases(Tail(ds))

Expected == <<header>> \o RowsOfDatabases(server.dbs)

\* the (database, table) pairs the server has revealed, in the server's order
RECURSIVE TablesOfDatabases(_)
TablesOfDatabases(ds) ==
    IF ds = <<>> THEN <<>>
    ELSE [i \in 1..Len(server.tablesOf[Head(ds)]) |->
              <<Head(ds), server.tablesOf[Head(ds)][i]>>]
         \o TablesOfDatabases(Tail(ds))

\* the statements stmt of the log, each as <<argument of the statement
\* before it, its own argument>>
Statements(stmt) ==
    LET ann == [i \in 1..Len(log) |->
                   [stmt |-> log[i].stmt,
                    pair |-> <<IF i > 1 THEN log[i - 1].arg ELSE <<>>,
                               log[i].arg>>]]
        sel == SelectSeq(ann, LAMBDA e : e.stmt = stmt)
    IN [i \in 1..Len(sel) |-> sel[i].pair]

Failed == \E i \in 1..Len(log) : ~log[i].ok

LastFailed == log # <<>> /\ ~log[Len(log)].ok

\* C1: a run that ends with status 0 has written exactly the header row and
\* then one row (database, table, column, type) per column row the server
\* returned, in the server's order of databases, of tables within a database
\* and of columns within a table; each line of the output is the csv encoding
\* of its row.
C1_OutputIsTheCatalog ==
    (pc = "exit" /\ status = 0) =>
        /\ written = Expected
        /\ Len(stdout) = Len(written)
        /\ \A i \in 1..Len(stdout) : stdout[i] = writerow(csv_writer, written[i])
        /\ ~Failed

\* two databases, the first with a table of two columns, the second empty
C1_Witness ==
    /\ pc = "exit" /\ status = 0
    /\ Len(server.dbs) = 2
    /\ server.tablesOf[server.dbs[2]] = <<>>
    /\ Len(written) = 3
    /\ written[2] # written[3]

\* C2: a query that fails is the last statement executed: nothing is executed
\* or written after it, the run ends with a non-zero status, no row of the
\* table whose DESCRIBE failed is in the output, and the rows written before
\* the failure stay as they are.
C2_QueryFailureIsFatal ==
    /\ [](Failed =>
            /\ LastFailed
            /\ \A i \in 1..(Len(log) - 1) : log[i].ok
            /\ pc \in {"raise", "exit"}
            /\ pc = "exit" => status > 0
            /\ log[Len(log)].stmt = "describe" =>
                 \A i \in 1..Len(written) :
                     ~(/\ written[i].database = locals.database
                       /\ written[i].table = log[Len(log)].arg))
    /\ [][Failed => log' = log /\ stdout' = stdout /\ written' = written]_vars

\* the DESCRIBE of the second table fails after a row of the first was written
C2_Witness ==
    /\ pc = "exit" /\ status = 1
    /\ LastFailed
    /\ log[Len(log)].stmt = "describe"
    /\ Len(Statements("describe")) = 2
    /\ Len(written) = 2

NoQuoting == flags.quotechar = <<>> /\ flags.escapechar = None

Delimiter == IF flags.delimiter = None THEN "," ELSE flags.delimiter[1]

HasDelimiter(r) ==
    \E f \in Range(dict_to_list(r)) : Delimiter \in Range(f)

Count(c, line) == Cardinality({i \in 1..Len(line) : line[i] = c})

AllQuoted(r) ==
    LET q == <<"\"">>
        d == q \o <<Delimiter>> \o q
    IN q \o r.database \o d \o r.table \o d \o r.column \o d \o r.type \o q
         \o <<"\r", "\n">>

\* C5: with --quotechar '' and no --escapechar, the write of a row with the
\* delimiter in one of its fields raises: the row is not written (no line of
\* the output has more than four fields), nothing is written afterwards, and
\* the run ends with a non-zero status.  With the default quote character the
\* row is written with every field quoted.
C5_DelimiterWithoutQuoting ==
    /\ [](NoQuoting =>
            /\ \A i \in 1..Len(stdout) : Count(Delimiter, stdout[i]) = 3
            /\ \A i \in 2..Len(written) : ~HasDelimiter(written[i]))
    /\ [][(NoQuoting /\ pc = "writerow" /\ HasDelimiter(SchemaRow(locals))) =>
            (pc' = "raise" /\ stdout' = stdout)]_vars
    /\ [][pc = "raise" =>
            /\ stdout' = stdout
            /\ pc' \in {"raise", "exit"}
            /\ pc' = "exit" => status' > 0]_vars
    /\ [](flags.quotechar = None =>
            /\ \A i \in 1..Len(stdout) : stdout[i] = AllQuoted(written[i])
            /\ pc = "writerow" =>
                 writerow(csv_writer, SchemaRow(locals))
                     = AllQuoted(SchemaRow(locals)))

\* a row was written, then the write of a row with the delimiter in it raised
C5_Witness ==
    /\ NoQuoting
    /\ pc = "exit" /\ status = 1
    /\ ~Failed
    /\ Len(written) = 2
    /\ HasDelimiter(SchemaRow(locals))
    /\ Len(Expected) = 3

\* C6: connect() is called at most once, with database None, and before the
\* header is written, a cursor is opened or a statement is executed; when it
\* fails nothing is written or executed and the run ends with a non-zero
\* status.
C6_OneEagerConnection ==
    /\ Len(conn) <= 1
    /\ \A i \in 1..Len(conn) : conn[i].kwargs.database = None
    /\ (stdout # <<>> \/ log # <<>> \/ server.sess # <<>>) =>
          (Len(conn) = 1 /\ conn[1].ok)
    /\ (pc \notin {"parse_args", "sense", "connect"} /\ status # 2) =>
          Len(conn) = 1
    /\ (conn # <<>> /\ ~conn[1].ok) =>
          /\ pc \in {"raise", "exit"}
          /\ pc = "exit" => status > 0
          /\ stdout = <<>> /\ log = <<>> /\ server.sess = <<>>

\* three cursors were opened and the run ended, on the one connection
C6_Witness ==
    /\ pc = "exit" /\ status = 0
    /\ Len(server.sess) >= 3
    /\ Len(conn) = 1 /\ conn[1].ok /\ conn[1].kwargs.database = None

\* C7: SHOW DATABASES is executed at most once, SHOW TABLES at most once for
\* each database returned and DESCRIBE at most once for each table returned,
\* in the order returned; in a run that ends with status 0 each is executed
\* exactly once.
C7_EachVisitedOnce ==
    /\ Len(Statements("show databases")) <= 1
    /\ IsPrefix([i \in 1..Len(Statements("show tables")) |->
                    Statements("show tables")[i][1]], server.dbs)
    /\ IsPrefix(Statements("describe"), TablesOfDatabases(server.dbs))
    /\ (pc = "exit" /\ status = 0) =>
          /\ Len(Statements("show databases")) = 1
          /\ Len(Statements("show tables")) = Len(server.dbs)
          /\ Statements("describe") = TablesOfDatabases(server.dbs)

\* two databases, the first with two tables
C7_Witness ==
    /\ pc = "exit" /\ status = 0
    /\ Len(server.dbs) = 2
    /\ Len(server.tablesOf[server.dbs[1]]) = 2
    /\ Len(Statements("describe")) >= 2

\* C8: the header is written before any statement is executed, and whenever a
\* cursor is opened, a statement executed or a row fetched, every column row
\* fetched so far has been written; the row just fetched is the only one that
\* may be missing, while its write is the next statement.
C8_Streamed ==
    /\ (log # <<>> \/ server.sess # <<>>) =>
          (written # <<>> /\ written[1] = header)
    /\ pc \in {"db_cursor", "show_databases", "for_db", "table_cursor",
               "use_database", "show_tables", "for_table", "column_cursor",
               "use_database_again", "describe", "for_column"} =>
          (written = Expected /\ Len(stdout) = Len(written))
    /\ pc = "writerow" =>
          (Append(written, SchemaRow(locals)) = Expected
             /\ Len(stdout) = Len(written))

\* a row of the first table is in the output while the second is described
C8_Witness ==
    /\ pc = "describe"
    /\ Len(Statements("describe")) = 1
    /\ Len(written) = 2

\* C9: the open cursors are the db_cursor, table_cursor and column_cursor of
\* the loops main() is in, at most one of each; the column cursor is closed
\* when the next table row is fetched, the table cursor when the next
\* database row is fetched, and none is open when the run has ended.
C9_CursorsReleased ==
    /\ server.open = {cursors.db, cursors.table, cursors.column} \ {0}
    /\ cursors.column # 0 => cursors.table # 0
    /\ cursors.table # 0 => cursors.db # 0
    /\ Cardinality(server.open) <= 3
    /\ pc = "for_table" => cursors.column = 0
    /\ pc = "for_db" => (cursors.table = 0 /\ cursors.column = 0)
    /\ pc = "exit" => server.open = {}

\* the run ended by the failure of a DESCRIBE, three cursors deep
C9_Witness ==
    /\ pc = "exit" /\ status = 1
    /\ LastFailed /\ log[Len(log)].stmt = "describe"
    /\ Len(server.sess) >= 3
    /\ server.open = {}

\* C10: every SHOW TABLES and every DESCRIBE t is the second statement of its
\* cursor, right after a USE d on that cursor, d being a database SHOW
\* DATABASES returned and, for DESCRIBE, one whose SHOW TABLES returned t; the
\* database in effect on the server for the statement is d, and every row
\* written is a row the server returned for that database and table.
C10_UseBeforeEachStatement ==
    /\ \A i \in 1..Len(log) :
         log[i].stmt \in {"show tables", "describe"} =>
            /\ i > 1
            /\ log[i - 1].stmt = "use" /\ log[i - 1].ok
            /\ log[i - 1].cur = log[i].cur
            /\ \A j \in 1..(i - 2) : log[j].cur # log[i].cur
            /\ log[i - 1].arg \in Range(server.dbs)
            /\ log[i].stmt = "describe" =>
                 log[i].arg \in Range(server.tablesOf[log[i - 1].arg])
            /\ log[i].ok => server.result[log[i].cur].db = log[i - 1].arg
    /\ \A i \in 2..Len(written) :
         \E row \in Range(server.colsOf[<<written[i].database,
                                          written[i].table>>]) :
            written[i].column = row[1] /\ written[i].type = row[2]

\* rows of two databases were written over a connection-wide USE
C10_Witness ==
    /\ server.scope = "connection"
    /\ pc = "exit" /\ status = 0
    /\ Len(written) = 3
    /\ written[2].database # written[3].database

====
